---- MODULE Spec2Model ----
(***************************************************************************)
(* Eligibility gate and per-pair generation of the grant e-mail generator. *)
(* Two pipelines are modelled: brain.py (should_send_email,                *)
(* generate_email_for_pair) and src/core/generator.py (EmailGenerator).    *)
(*                                                                         *)
(* Encoding of Python values:                                              *)
(*   - a str is a sequence of one-character strings;                       *)
(*   - a dict is a function whose DOMAIN is its key set;                   *)
(*   - a JSON value that should be a list is [kind, items], kind "null"    *)
(*     being JSON null; a list item is [isStr, s], isStr = FALSE being a   *)
(*     JSON number;                                                        *)
(*   - a call that raises yields a value with raised = TRUE;               *)
(*   - instants and wall-clock readings are counted in half hours.         *)
(***************************************************************************)
EXTENDS Integers, Sequences, FiniteSets, TLC

\* ---------------------------------------------------------------- bounds
MaxNow == 2
MaxTopics == 2
\* longest list of recipients and of events in a batch
MaxBatch == 2
\* longest list of records handed to the list builders
MaxItems == 2
\* longest list of emails handed to one send_batch call
MaxEmails == 4
\* the BATCH_SIZE setting of the senders
BatchSizeSetting == 2
\* largest value of the MAX_RETRIES setting
MaxRetriesSetting == 2

\* ------------------------------------------------------ program constants
\* Asia/Kolkata is UTC+05:30, i.e. 11 half hours ahead of UTC.
IST_OFFSET == 11
TOPIC_MATCH_MEDIUM == 1
ENGAGEMENT_HIGH == 70
ENGAGEMENT_LOW == 50
DEFAULT_ENGAGEMENT == 50

REQUIRED_RECIPIENT_FIELDS ==
    <<"recipient_id", "name", "email", "organization", "topics",
      "engagement_score", "opt_out">>

REQUIRED_EVENT_FIELDS ==
    <<"event_id", "title", "start_date", "tags", "organizer", "metadata">>

REQUIRED_METADATA_FIELDS == <<"amount_range", "application_deadline">>

\* EMAIL_TYPES has the integer keys 0, 1, 3, 5, 6 and the string keys "7a", "7b".
EMAIL_TYPES_INT_KEYS == {"0", "1", "3", "5", "6"}
EMAIL_TYPES_STR_KEYS == {"7a", "7b"}

\* ------------------------------------------------------------ str helpers
Range(s) == {s[i] : i \in DOMAIN s}

\* ord(c) for the characters used by the model
Code(c) ==
    CASE c = " " -> 32
      [] c = "C" -> 67
      [] c = "H" -> 72
      [] c = "a" -> 97
      [] c = "c" -> 99
      [] c = "e" -> 101
      [] c = "h" -> 104

\* str.lower on one character
LowerChar(c) ==
    CASE c = "C" -> "c"
      [] c = "H" -> "h"
      [] OTHER -> c

\* str.lower
Lower(s) == [i \in DOMAIN s |-> LowerChar(s[i])]

RECURSIVE LStrip(_)
LStrip(s) == IF s # <<>> /\ Head(s) = " " THEN LStrip(Tail(s)) ELSE s

RECURSIVE RStrip(_)
RStrip(s) ==
    IF s # <<>> /\ s[Len(s)] = " " THEN RStrip(SubSeq(s, 1, Len(s) - 1)) ELSE s

\* str.strip
Strip(s) == RStrip(LStrip(s))

\* a < b for two str, by code point, as Python compares them
StrLess(a, b) ==
    \E k \in 1..(Len(a) + 1) :
        /\ k <= Len(b)
        /\ \A i \in 1..(k - 1) : a[i] = b[i]
        /\ \/ k = Len(a) + 1
           \/ Code(a[k]) < Code(b[k])

\* insertion of x into a sorted list, after the elements that are not greater
RECURSIVE InsertSorted(_, _)
InsertSorted(x, l) ==
    IF l = <<>> THEN <<x>>
    ELSE IF StrLess(x, Head(l)) THEN <<x>> \o l
    ELSE <<Head(l)>> \o InsertSorted(x, Tail(l))

\* sorted(l) for a list of str
RECURSIVE Sorted(_)
Sorted(l) ==
    IF l = <<>> THEN <<>>
    ELSE InsertSorted(l[Len(l)], Sorted(SubSeq(l, 1, Len(l) - 1)))

\* ---------------------------------------------------------- JSON helpers
Str(s) == [isStr |-> TRUE, s |-> s]
NonStr == [isStr |-> FALSE, s |-> <<>>]
List(items) == [kind |-> "list", items |-> items]
NullList == [kind |-> "null", items |-> <<>>]
EmptyDict == [k \in {} |-> TRUE]

\* dict.get(key, default)
Get(d, key, default) == IF key \in DOMAIN d THEN d[key] ELSE default

Warn(msg, arg) == [msg |-> msg, arg |-> arg]

\* ------------------------------------------------------ deadline values
\* event.metadata.application_deadline: a date string (wall clock reading and
\* zone), a string dateutil cannot parse, or the empty string
Date(clock, tz) == [kind |-> "date", clock |-> clock, tz |-> tz]
BadDeadline == [kind |-> "bad", clock |-> 0, tz |-> "naive"]
EmptyDeadline == [kind |-> "empty", clock |-> 0, tz |-> "naive"]
\* what dict.get returns for a missing key
NoneValue == [kind |-> "none", clock |-> 0, tz |-> "naive"]

\* Python truthiness of a deadline value: None and "" are falsy
Truthy(deadline) == deadline.kind \in {"date", "bad"}

Metadata(d) == [isMap |-> TRUE, d |-> d]
NullMetadata == [isMap |-> FALSE, d |-> EmptyDict]

\* ------------------------------------------------------------ validation
MissingErrors(required, d, msg) ==
    LET miss == SelectSeq(required, LAMBDA f : f \notin DOMAIN d)
    IN  [i \in 1..Len(miss) |-> Warn(msg, miss[i])]

validate_recipient(r) ==
    MissingErrors(REQUIRED_RECIPIENT_FIELDS, r, "Missing recipient field")
    \o (IF "topics" \in DOMAIN r /\ r["topics"].kind # "list"
        THEN <<Warn("recipient.topics must be a list", "")>>
        ELSE <<>>)

\* `m not in event["metadata"]` raises TypeError when metadata is not a container
validate_event(e) ==
    IF "metadata" \in DOMAIN e /\ ~e["metadata"].isMap
    THEN [raised |-> TRUE, errors |-> <<>>]
    ELSE [raised |-> FALSE,
          errors |->
            MissingErrors(REQUIRED_EVENT_FIELDS, e, "Missing event field")
            \o (IF "metadata" \in DOMAIN e
                THEN MissingErrors(REQUIRED_METADATA_FIELDS, e["metadata"].d,
                                   "Missing event.metadata field")
                ELSE <<>>)
            \o (IF "tags" \in DOMAIN e /\ e["tags"].kind # "list"
                THEN <<Warn("event.tags must be a list", "")>>
                ELSE <<>>)]

\* ------------------------------------------------------------- deadline
\* mutant of DeadlineInstant: IST is taken to be a whole hour further east
DeadlineInstantWholeHour(deadline) ==
    IF deadline.tz = "naive" THEN deadline.clock - (IST_OFFSET + 1)
    ELSE deadline.clock

\* the UTC instant of a parsed deadline: a naive reading is localized to IST
DeadlineInstant(deadline) ==
    IF deadline.tz = "naive" THEN deadline.clock - IST_OFFSET
    ELSE deadline.clock

\* mutant of is_deadline_passed: a deadline equal to now counts as passed
is_deadline_passed_nonstrict(deadline, t) ==
    IF deadline.kind = "date"
    THEN [passed |-> t >= DeadlineInstant(deadline), err |-> FALSE]
    ELSE [passed |-> FALSE, err |-> TRUE]

\* mutant of is_deadline_passed: a string that does not parse counts as passed
is_deadline_passed_unparsed_passed(deadline, t) ==
    IF deadline.kind = "date"
    THEN [passed |-> t > DeadlineInstant(deadline), err |-> FALSE]
    ELSE [passed |-> TRUE, err |-> FALSE]

\* brain.py is_deadline_passed: dateparse.parse raises on a string that is no
\* date, and the except branch returns (False, "Invalid deadline format: ...")
is_deadline_passed(deadline, t) ==
    IF deadline.kind = "date"
    THEN [passed |-> t > DeadlineInstant(deadline), err |-> FALSE]
    ELSE [passed |-> FALSE, err |-> TRUE]

\* ---------------------------------------------------------- topic overlap
AllStr(l) == l.kind = "list" /\ \A i \in DOMAIN l.items : l.items[i].isStr

\* {t.strip().lower() for t in l}
KeySet(l) == {Lower(Strip(l.items[i].s)) : i \in DOMAIN l.items}

\* mutant of topic_overlap: the comparison keys are lower-cased, not stripped
topic_overlap_unstripped(recipient_topics, event_tags) ==
    IF ~AllStr(recipient_topics) \/ ~AllStr(event_tags)
    THEN [raised |-> TRUE, items |-> <<>>]
    ELSE LET e_lower == {Lower(event_tags.items[i].s) : i \in DOMAIN event_tags.items}
             kept == SelectSeq(recipient_topics.items,
                               LAMBDA t : Lower(t.s) \in e_lower)
         IN  [raised |-> FALSE,
              items |-> Sorted([i \in 1..Len(kept) |-> kept[i].s])]

\* brain.py topic_overlap. The two set comprehensions raise on a value that is
\* not iterable and on an item that has no strip(); the result keeps the
\* recipient's own strings.
topic_overlap(recipient_topics, event_tags) ==
    IF ~AllStr(recipient_topics) \/ ~AllStr(event_tags)
    THEN [raised |-> TRUE, items |-> <<>>]
    ELSE LET e_lower == KeySet(event_tags)
             kept == SelectSeq(recipient_topics.items,
                               LAMBDA t : Lower(Strip(t.s)) \in e_lower)
         IN  [raised |-> FALSE,
              items |-> Sorted([i \in 1..Len(kept) |-> kept[i].s])]

\* ------------------------------------------------------------- the gates
Decision(send, reason, warnings) ==
    [raised |-> FALSE, should_send |-> send, reason |-> reason,
     warnings |-> warnings]
RaisedDecision ==
    [raised |-> TRUE, should_send |-> FALSE, reason |-> "raised",
     warnings |-> <<>>]

\* event.get("metadata", {}).get("application_deadline")
DeadlineOf(e) == Get(Get(e, "metadata", Metadata(EmptyDict)).d,
                     "application_deadline", NoneValue)

\* mutant of OptedOut: the opt-out flag is never honoured
OptedOutIgnored(r) == FALSE

\* recipient.get("opt_out", False)
OptedOut(r) == Get(r, "opt_out", FALSE)

\* mutant of ValidationErrors: the event's errors are reported first
ValidationErrorsEventFirst(r_errors, e_errors) == e_errors \o r_errors

\* brain.py line 228: warnings.extend(r_errors + e_errors)
ValidationErrors(r_errors, e_errors) == r_errors \o e_errors

\* mutant of business_rules: the deadline is checked before the opt-out flag
business_rules_deadline_first(r, e, t) ==
    LET deadline == DeadlineOf(e)
        dl == is_deadline_passed(deadline, t)
        overlap == topic_overlap(Get(r, "topics", List(<<>>)),
                                 Get(e, "tags", List(<<>>)))
    IN  IF Truthy(deadline) /\ ~dl.err /\ dl.passed
        THEN Decision(FALSE, "deadline_passed",
                      <<Warn("Application deadline has passed - DO NOT SEND", "")>>)
        ELSE IF OptedOut(r)
        THEN Decision(FALSE, "opted_out",
                      <<Warn("Recipient has opted out - DO NOT SEND", "")>>)
        ELSE IF overlap.raised THEN RaisedDecision
        ELSE IF Len(overlap.items) < TOPIC_MATCH_MEDIUM
        THEN Decision(FALSE, "no_topic_match",
                      <<Warn("Insufficient topic overlap", "")>>)
        ELSE Decision(TRUE, "approved",
                      IF Truthy(deadline) /\ dl.err
                      THEN <<Warn("Invalid deadline format", "")>> ELSE <<>>)

\* brain.py should_send_email after validation: opt-out, deadline, topic match
business_rules(r, e, t) ==
    LET deadline == DeadlineOf(e)
        dl == is_deadline_passed(deadline, t)
        warnings == IF Truthy(deadline) /\ dl.err
                    THEN <<Warn("Invalid deadline format", "")>> ELSE <<>>
        overlap == topic_overlap(Get(r, "topics", List(<<>>)),
                                 Get(e, "tags", List(<<>>)))
    IN  IF OptedOut(r)
        THEN Decision(FALSE, "opted_out",
                      <<Warn("Recipient has opted out - DO NOT SEND", "")>>)
        ELSE IF Truthy(deadline) /\ ~dl.err /\ dl.passed
        THEN Decision(FALSE, "deadline_passed",
                      <<Warn("Application deadline has passed - DO NOT SEND", "")>>)
        ELSE IF overlap.raised THEN RaisedDecision
        ELSE IF Len(overlap.items) < TOPIC_MATCH_MEDIUM
        THEN Decision(FALSE, "no_topic_match",
                      <<Warn("Insufficient topic overlap", "")>>)
        ELSE Decision(TRUE, "approved", warnings)

\* brain.py should_send_email
should_send_email(r, e, t) ==
    LET r_errors == validate_recipient(r)
        e_res == validate_event(e)
    IN  IF e_res.raised THEN RaisedDecision
        ELSE IF r_errors # <<>> \/ e_res.errors # <<>>
        THEN Decision(FALSE, "validation_failed",
                      ValidationErrors(r_errors, e_res.errors))
        ELSE business_rules(r, e, t)

\* {t.lower() for t in l}: no strip() in src/core/generator.py
LowerSet(l) == {Lower(l.items[i].s) : i \in DOMAIN l.items}

\* src/core/generator.py
validate_request(r, e, t) ==
    LET field_warnings ==
            MissingErrors(REQUIRED_RECIPIENT_FIELDS, r, "Missing recipient field")
        md == Get(e, "metadata", Metadata(EmptyDict))
        deadline == Get(md.d, "application_deadline", NoneValue)
        warnings == field_warnings
                    \o (IF Truthy(deadline) /\ deadline.kind # "date"
                        THEN <<Warn("Invalid deadline format", "")>> ELSE <<>>)
        topics == Get(r, "topics", List(<<>>))
        tags == Get(e, "tags", List(<<>>))
    IN  IF OptedOut(r)
        THEN Decision(FALSE, "opted_out", <<Warn("Recipient opted out", "")>>)
        ELSE IF ~md.isMap THEN RaisedDecision
        ELSE IF deadline.kind = "date" /\ t > DeadlineInstant(deadline)
        THEN Decision(FALSE, "deadline_passed", <<Warn("Deadline passed", "")>>)
        ELSE IF ~AllStr(topics) \/ ~AllStr(tags) THEN RaisedDecision
        ELSE IF Cardinality(LowerSet(topics) \cap LowerSet(tags)) < TOPIC_MATCH_MEDIUM
        THEN Decision(FALSE, "no_topic_match", <<Warn("Insufficient overlap", "")>>)
        ELSE Decision(TRUE, "approved", warnings)

\* ------------------------------------------------------- content provider
\* the "email" member of a result: a {subject, body} object, JSON null, or no
\* such key at all
Content(subject, body) == [kind |-> "content", subject |-> subject, body |-> body]
NullEmail == [kind |-> "null", subject |-> "", body |-> ""]
AbsentEmail == [kind |-> "absent", subject |-> "", body |-> ""]

\* What the text-generation service does with one request: the call raises,
\* the reply is not JSON, the reply is JSON but not an object, or it is an
\* object (with whatever "email" and "warnings" the model chose to write).
ApiError == [kind |-> "api_error", email |-> AbsentEmail, warnings |-> <<>>]
NotJson == [kind |-> "not_json", email |-> AbsentEmail, warnings |-> <<>>]
NonObject == [kind |-> "non_object", email |-> AbsentEmail, warnings |-> <<>>]
Object(email, warnings) == [kind |-> "object", email |-> email, warnings |-> warnings]
\* the service was not called
NoReply == [kind |-> "none", email |-> AbsentEmail, warnings |-> <<>>]

Replies ==
    {ApiError, NotJson, NonObject}
    \cup {Object(em, w) :
            em \in {Content("ai_subject", "ai_body"), NullEmail, AbsentEmail},
            w \in {<<>>, <<Warn("ai warning", "")>>}}

\* the value a provider hands back to the pair processor
Provided(isObject, email, warnings, calls) ==
    [raised |-> FALSE, isObject |-> isObject, email |-> email,
     warnings |-> warnings, calls |-> calls]
RaisedProvided(calls) ==
    [raised |-> TRUE, isObject |-> FALSE, email |-> AbsentEmail,
     warnings |-> <<>>, calls |-> calls]

\* brain.py _fallback_email with _generate_simple_body, which reads
\* event.get("metadata", {}).get(...)
fallback_email(e, error, calls) ==
    IF ~Get(e, "metadata", Metadata(EmptyDict)).isMap
    THEN RaisedProvided(calls \o <<"fallback">>)
    ELSE Provided(TRUE, Content("fallback_subject", "fallback_body"),
                  <<Warn("Used fallback due to", error)>>,
                  calls \o <<"fallback">>)

\* int(day_number) is evaluated before EMAIL_TYPES.get looks anything up
IntParses(d) == d \in EMAIL_TYPES_INT_KEYS

\* mutant of generate_email_content: a reply that is not JSON is not caught
generate_email_content_uncaught(e, d, reply) ==
    IF ~IntParses(d) THEN fallback_email(e, "API error", <<>>)
    ELSE IF reply.kind = "api_error" THEN fallback_email(e, "API error", <<"api">>)
    ELSE IF reply.kind = "not_json" THEN RaisedProvided(<<"api">>)
    ELSE Provided(reply.kind = "object", reply.email, reply.warnings, <<"api">>)

\* brain.py GroqEmailGenerator.generate_email_content
generate_email_content(e, d, reply) ==
    IF ~IntParses(d) THEN fallback_email(e, "API error", <<>>)
    ELSE IF reply.kind = "api_error" THEN fallback_email(e, "API error", <<"api">>)
    ELSE IF reply.kind = "not_json"
    THEN fallback_email(e, "JSON parse error", <<"api">>)
    ELSE Provided(reply.kind = "object", reply.email, reply.warnings, <<"api">>)

\* mutant of tone_from_engagement: the thresholds are exclusive
tone_from_engagement_exclusive(score) ==
    IF score > ENGAGEMENT_HIGH THEN "enthusiastic"
    ELSE IF score > ENGAGEMENT_LOW THEN "professional"
    ELSE "gentle"

\* brain.py tone_from_engagement, scores in hundredths
tone_from_engagement(score) ==
    IF score >= ENGAGEMENT_HIGH THEN "enthusiastic"
    ELSE IF score >= ENGAGEMENT_LOW THEN "professional"
    ELSE "gentle"

\* ----------------------------------------------------------- the records
Record(status, reason, email, warnings, tone, overlap, d) ==
    [raised |-> FALSE, status |-> status, reason |-> reason, email |-> email,
     warnings |-> warnings, tone |-> tone, topic_overlap |-> overlap, day |-> d]
RaisedResult ==
    [raised |-> TRUE, status |-> "raised", reason |-> "", email |-> AbsentEmail,
     warnings |-> <<>>, tone |-> "", topic_overlap |-> <<>>, day |-> ""]
NoResult ==
    [raised |-> FALSE, status |-> "none", reason |-> "", email |-> AbsentEmail,
     warnings |-> <<>>, tone |-> "", topic_overlap |-> <<>>, day |-> ""]

\* mutant of Blocked: the early return of a blocked pair is missing
BlockedNever(dec) == FALSE

\* brain.py generate_email_for_pair and generator.py generate_email,
\* `if not should_send:`
Blocked(dec) == ~dec.should_send

\* brain.py generate_email_for_pair, the blocked branch
blocked_record(r, e, d, dec) ==
    LET overlap == topic_overlap(Get(r, "topics", List(<<>>)),
                                 Get(e, "tags", List(<<>>)))
    IN  IF overlap.raised THEN RaisedResult
        ELSE Record("blocked", dec.reason, NullEmail, dec.warnings, "",
                    overlap.items, d)

\* mutant of generated_record: the provider's warnings come first
generated_record_provider_first(r, e, d, dec, content) ==
    LET overlap == topic_overlap(Get(r, "topics", List(<<>>)),
                                 Get(e, "tags", List(<<>>)))
    IN  IF content.raised \/ ~content.isObject \/ overlap.raised THEN RaisedResult
        ELSE Record("generated", "", content.email,
                    content.warnings \o dec.warnings,
                    tone_from_engagement(Get(r, "engagement_score", DEFAULT_ENGAGEMENT)),
                    overlap.items, d)

\* brain.py generate_email_for_pair, after the gate approved
generated_record(r, e, d, dec, content) ==
    LET overlap == topic_overlap(Get(r, "topics", List(<<>>)),
                                 Get(e, "tags", List(<<>>)))
    IN  IF content.raised \/ ~content.isObject \/ overlap.raised THEN RaisedResult
        ELSE Record("generated", "", content.email,
                    dec.warnings \o content.warnings,
                    tone_from_engagement(Get(r, "engagement_score", DEFAULT_ENGAGEMENT)),
                    overlap.items, d)

\* src/core/generator.py _create_blocked_response
create_blocked_response(d, dec) ==
    Record("blocked", dec.reason, NullEmail, dec.warnings, "", <<>>, d)

\* src/core/generator.py _generate_fallback
generate_fallback(d, warnings, error) ==
    Record("generated", "", Content("fallback_subject", "fallback_body"),
           warnings \o <<Warn("Used fallback", error)>>, "", <<>>, d)

\* src/core/generator.py _generate_with_ai under generate_email's try/except:
\* a raising call, and a reply that cannot take result["meta"], end in the
\* except branch; a reply that is not JSON falls back inside _generate_with_ai
generate_with_ai(d, warnings, reply) ==
    CASE reply.kind = "api_error" -> generate_fallback(d, warnings, "API error")
      [] reply.kind = "not_json" -> generate_fallback(d, warnings, "JSON parse error")
      [] reply.kind = "non_object" -> generate_fallback(d, warnings, "TypeError")
      [] OTHER -> Record("generated", "", reply.email,
                         warnings \o reply.warnings, "", <<>>, d)

\* ------------------------------------------------------------ the inputs
S_Ca == <<"C", "a">>
S_ca == <<"c", "a">>
S_h_padded == <<" ", "h", " ">>
S_H == <<"H">>
S_e == <<"e">>

RECURSIVE SeqsUpTo(_, _)
SeqsUpTo(S, n) ==
    IF n = 0 THEN {<<>>}
    ELSE LET shorter == SeqsUpTo(S, n - 1)
         IN  shorter \cup {Append(l, x) : l \in shorter, x \in S}

Drop(d, missing) == [k \in DOMAIN d \ missing |-> d[k]]

FullRecipient(topics, opt_out, score) ==
    [recipient_id |-> "r1", name |-> "Asha", email |-> "asha@example.org",
     organization |-> "org", topics |-> topics, engagement_score |-> score,
     opt_out |-> opt_out]

FullEvent(tags, metadata) ==
    [event_id |-> "e1", title |-> "title", start_date |-> "start",
     tags |-> tags, organizer |-> "organizer", metadata |-> metadata]

\* deadlines around the instant MaxNow - 1, read on a UTC and on a naive clock
Deadlines ==
    {EmptyDeadline, BadDeadline}
    \cup {Date(c, tz) : c \in {MaxNow - 1, MaxNow - 1 + IST_OFFSET},
                        tz \in {"naive", "utc"}}

FutureDeadline == Date(MaxNow + 1, "utc")

Metadatas ==
    {NullMetadata, Metadata(EmptyDict), Metadata([amount_range |-> "5k"])}
    \cup {Metadata([amount_range |-> "5k", application_deadline |-> dl]) :
            dl \in Deadlines}
    \cup {Metadata([application_deadline |-> BadDeadline])}

\* pairs that exercise the order of the gate's checks
GateRecipients ==
    {Drop(FullRecipient(tp, oo, ENGAGEMENT_HIGH), miss) :
        tp \in {List(<<Str(S_Ca), Str(S_h_padded)>>), List(<<Str(S_e)>>),
                List(<<NonStr>>), NullList},
        oo \in BOOLEAN,
        miss \in {{}, {"name"}, {"opt_out"}, {"recipient_id", "topics"}}}

GateEvents ==
    {Drop(FullEvent(tg, md), miss) :
        tg \in {List(<<Str(S_ca), Str(S_H)>>), List(<<NonStr>>), NullList},
        md \in Metadatas,
        miss \in {{}, {"tags"}, {"title", "metadata"}}}

\* pairs that pass every check before the topic match
Scores == {ENGAGEMENT_LOW - 1, ENGAGEMENT_LOW, ENGAGEMENT_HIGH}

OverlapRecipients ==
    {FullRecipient(List(l), FALSE, sc) :
        l \in SeqsUpTo({Str(S_Ca), Str(S_ca), Str(S_h_padded), Str(S_e)}, MaxTopics),
        sc \in Scores}

OverlapEvents ==
    {FullEvent(List(tg),
               Metadata([amount_range |-> "5k", application_deadline |-> FutureDeadline])) :
        tg \in {<<>>, <<Str(S_ca), Str(S_H)>>, <<Str(S_Ca)>>, <<Str(S_e), Str(S_e)>>}}

Pairs == (GateRecipients \X GateEvents) \cup (OverlapRecipients \X OverlapEvents)

Days == {"1", "7a"}
Impls == {"brain", "generator"}

\* -------------------------------------------------------------- the state
VARIABLES
    impl,       \* which pipeline processes the pair
    recipient,  \* the recipient dict
    event,      \* the event dict
    day,        \* day_number
    use_ai,     \* brain: use_ai and ai_generator; generator: self.llm is set
    now,        \* datetime.now(timezone.utc)
    pc,         \* "start", "gated", "done"
    decision,   \* what the gate returned
    invoked,    \* the provider operations performed, in order
    reply,      \* what the text-generation service did with the request
    result,     \* what the pair processor returned
    \* generate_batch (brain.py) and the generation loop of main.py
    b_impl,       \* "brain" (generate_batch), "main" (main.py), "none"
    b_days,       \* days, in the order given
    b_recipients, \* json.load(recipients_file)
    b_events,     \* json.load(events_file)
    b_pc,         \* "idle", "loop", "returned", "raised"
    b_d,          \* position of the day loop
    b_i,          \* position of the recipient loop
    b_j,          \* position of the event loop
    stats,        \* total, generated, blocked, by_reason
    day_outputs,  \* the records appended for the current day
    saved,        \* the day files written, in order
    \* load_generated_emails (email_sender.py), prepare_emails_for_sending
    l_impl,       \* "load", "prepare", "none"
    l_items,      \* the records of the day file / generated_results
    l_k,          \* position of the loop
    l_pc,         \* "idle", "loop", "returned", "raised"
    sendable,     \* the list being built
    \* EmailSender (email_sender.py and src/core/sender.py)
    s_impl,       \* "email_sender", "core", "none"
    dry_run,      \* self.dry_run
    max_retries,  \* the MAX_RETRIES setting
    s_queue,      \* the lists of emails of the successive send_batch calls
    s_call,       \* which call is running
    s_pc,         \* "idle", "ready", "loop", "returned"
    s_idx,        \* position of the loop over emails
    s_stats,      \* self.stats
    s_log,        \* what the running call did with each email, in order
    s_returned,   \* what the last call returned
    cfg_user,     \* EMAIL_USER is set
    cfg_password, \* EMAIL_PASSWORD is set
    s_conns,      \* the SMTP connections opened so far
    exit_code,    \* what main of email_sender.py returned: "none", "0", "1"
    \* two calls of should_send_email on one pair
    now1,         \* the instant of the first call
    decision2     \* what the second call returned

pairVars == <<impl, recipient, event, day, pc, decision, invoked, reply, result>>
batchVars == <<b_impl, b_days, b_recipients, b_events, b_pc, b_d, b_i, b_j,
               stats, day_outputs, saved>>
listVars == <<l_impl, l_items, l_k, l_pc, sendable>>
senderVars == <<s_impl, dry_run, max_retries, s_queue, s_call, s_pc, s_idx,
                s_stats, s_log, s_returned, cfg_user, cfg_password, s_conns,
                exit_code>>
gateVars == <<now1, decision2>>
vars == <<pairVars, batchVars, listVars, senderVars, gateVars, use_ai, now>>

NoStats == [total |-> 0, generated |-> 0, blocked |-> 0, by_reason |-> EmptyDict]

\* no batch is running
BatchIdle ==
    /\ b_impl = "none" /\ b_pc = "idle"
    /\ b_days = <<>> /\ b_recipients = <<>> /\ b_events = <<>>
    /\ b_d = 0 /\ b_i = 0 /\ b_j = 0
    /\ stats = NoStats /\ day_outputs = <<>> /\ saved = <<>>

\* no list is being built
ListIdle ==
    /\ l_impl = "none" /\ l_pc = "idle"
    /\ l_items = <<>> /\ l_k = 0 /\ sendable = <<>>

\* EmailSender.__init__: self.stats
NoSendStats == [attempted |-> 0, sent |-> 0, failed |-> 0, skipped |-> 0]

\* no sender exists
SenderIdle ==
    /\ s_impl = "none" /\ s_pc = "idle"
    /\ dry_run = FALSE /\ max_retries = 0
    /\ s_queue = <<>> /\ s_call = 0 /\ s_idx = 0
    /\ s_stats = NoSendStats /\ s_log = <<>> /\ s_returned = NoSendStats
    /\ cfg_user = FALSE /\ cfg_password = FALSE
    /\ s_conns = 0 /\ exit_code = "none"

NoDecision ==
    [raised |-> FALSE, should_send |-> FALSE, reason |-> "none", warnings |-> <<>>]

\* should_send_email is not being called twice
GateIdle == now1 = 0 /\ decision2 = NoDecision

Init ==
    /\ impl \in Impls
    /\ \E p \in Pairs : recipient = p[1] /\ event = p[2]
    /\ day \in Days
    /\ use_ai \in BOOLEAN
    /\ now \in 0..MaxNow
    /\ pc = "start"
    /\ decision = NoDecision
    /\ invoked = <<>>
    /\ reply = NoReply
    /\ result = NoResult
    /\ BatchIdle /\ ListIdle /\ SenderIdle /\ GateIdle

\* the gate returned, or raised out of the pair processor
AfterGate(dec) ==
    /\ decision' = dec
    /\ pc' = IF dec.raised THEN "done" ELSE "gated"
    /\ result' = IF dec.raised THEN RaisedResult ELSE result
    /\ UNCHANGED <<impl, recipient, event, day, use_ai, now, invoked, reply>>
    /\ UNCHANGED <<batchVars, listVars, senderVars, gateVars>>

\* brain.py generate_email_for_pair, line 287
BrainGate ==
    /\ impl = "brain" /\ pc = "start"
    /\ AfterGate(should_send_email(recipient, event, now))

\* src/core/generator.py generate_email, line 49
GeneratorGate ==
    /\ impl = "generator" /\ pc = "start"
    /\ AfterGate(validate_request(recipient, event, now))

Finish(res, calls, rp) ==
    /\ result' = res
    /\ invoked' = calls
    /\ reply' = rp
    /\ pc' = "done"
    /\ UNCHANGED <<impl, recipient, event, day, use_ai, now, decision>>
    /\ UNCHANGED <<batchVars, listVars, senderVars, gateVars>>

\* brain.py generate_email_for_pair, lines 289-308
BrainBlock ==
    /\ impl = "brain" /\ pc = "gated" /\ Blocked(decision)
    /\ Finish(blocked_record(recipient, event, day, decision), invoked, reply)

\* brain.py generate_email_for_pair, lines 310-334
BrainGenerate ==
    /\ impl = "brain" /\ pc = "gated" /\ ~Blocked(decision)
    /\ \E rp \in (IF use_ai /\ IntParses(day) THEN Replies ELSE {NoReply}) :
         LET content == IF use_ai
                        THEN generate_email_content(event, day, rp)
                        ELSE fallback_email(event, "AI disabled", <<>>)
         IN  Finish(generated_record(recipient, event, day, decision, content),
                    content.calls, rp)

\* src/core/generator.py generate_email, lines 51-52
GeneratorBlock ==
    /\ impl = "generator" /\ pc = "gated" /\ Blocked(decision)
    /\ Finish(create_blocked_response(day, decision), invoked, reply)

\* src/core/generator.py generate_email, lines 54-62
GeneratorGenerate ==
    /\ impl = "generator" /\ pc = "gated" /\ ~Blocked(decision)
    /\ \E rp \in (IF use_ai THEN Replies ELSE {NoReply}) :
         IF use_ai
         THEN Finish(generate_with_ai(day, decision.warnings, rp),
                     IF rp.kind = "object" THEN <<"api">>
                     ELSE <<"api", "fallback">>, rp)
         ELSE Finish(generate_fallback(day, decision.warnings, "AI disabled"),
                     <<"fallback">>, rp)

Next ==
    \/ BrainGate
    \/ GeneratorGate
    \/ BrainBlock
    \/ BrainGenerate
    \/ GeneratorBlock
    \/ GeneratorGenerate

Spec == Init /\ [][Next]_vars

\* ---------------------------------------------------------------- batch
\* brain.py generate_email_for_pair as one call
generate_email_for_pair(r, e, d, ai, rp, t) ==
    LET dec == should_send_email(r, e, t)
    IN  IF dec.raised THEN RaisedResult
        ELSE IF Blocked(dec) THEN blocked_record(r, e, d, dec)
        ELSE generated_record(r, e, d, dec,
                              IF ai THEN generate_email_content(e, d, rp)
                              ELSE fallback_email(e, "AI disabled", <<>>))

\* src/core/generator.py EmailGenerator.generate_email as one call
generate_email(r, e, d, ai, rp, t) ==
    LET dec == validate_request(r, e, t)
    IN  IF dec.raised THEN RaisedResult
        ELSE IF Blocked(dec) THEN create_blocked_response(d, dec)
        ELSE IF ai THEN generate_with_ai(d, dec.warnings, rp)
        ELSE generate_fallback(d, dec.warnings, "AI disabled")

\* the record one iteration of the loop obtains
PairResult(im, r, e, d, ai, rp, t) ==
    IF im = "brain" THEN generate_email_for_pair(r, e, d, ai, rp, t)
    ELSE generate_email(r, e, d, ai, rp, t)

\* what the loops keep of a record: meta.recipient_id, meta.event_id,
\* meta.status and meta.reason
Entry(r, e, res) ==
    [recipient_id |-> Get(r, "recipient_id", "None"),
     event_id |-> Get(e, "event_id", "None"),
     status |-> res.status, reason |-> res.reason]

\* stats["by_reason"][reason] = stats["by_reason"].get(reason, 0) + 1
Increment(d, key) ==
    [k \in DOMAIN d \cup {key} |-> IF k = key THEN Get(d, key, 0) + 1 ELSE d[k]]

\* mutant of CountPair: a blocked pair is not entered under its reason
CountPairNoReason(st, res) ==
    IF res.status = "generated"
    THEN [st EXCEPT !.total = @ + 1, !.generated = @ + 1]
    ELSE [st EXCEPT !.total = @ + 1, !.blocked = @ + 1]

\* brain.py generate_batch lines 390-403 for a pair that returned a record
CountPair(st, res) ==
    IF res.status = "generated"
    THEN [st EXCEPT !.total = @ + 1, !.generated = @ + 1]
    ELSE [st EXCEPT !.total = @ + 1, !.blocked = @ + 1,
                    !.by_reason = Increment(@, res.reason)]

\* mutant of Advance: the event loop is the outer loop
AdvanceEventMajor(i, j, nR, nE) ==
    IF i < nR THEN <<i + 1, j>> ELSE <<1, j + 1>>

\* `for recipient in recipients: for event in events:`, the positions of
\* the pair after (i, j); i = nR + 1 once both loops are exhausted
Advance(i, j, nR, nE) ==
    IF j < nE THEN <<i, j + 1>> ELSE <<i + 1, 1>>

\* the recipients, events and day lists of the batches
B_Recipient(id, topics, opt_out) ==
    [FullRecipient(topics, opt_out, ENGAGEMENT_HIGH) EXCEPT !.recipient_id = id]
B_Event(id, tags, deadline) ==
    [FullEvent(tags, Metadata([amount_range |-> "5k",
                               application_deadline |-> deadline]))
       EXCEPT !.event_id = id]

\* the instant at which the batches run
BatchNow == MaxNow - 1
BatchRecipientPool ==
    {B_Recipient("r1", List(<<Str(S_Ca)>>), FALSE),
     B_Recipient("r2", List(<<Str(S_Ca)>>), TRUE),
     B_Recipient("r3", List(<<NonStr>>), FALSE)}
BatchEventPool ==
    {B_Event("e1", List(<<Str(S_ca)>>), FutureDeadline),
     B_Event("e2", List(<<Str(S_ca)>>), Date(BatchNow - 1, "utc"))}
DayLists == {<<>>, <<"1">>, <<"7a">>, <<"1", "7a">>, <<"7a", "1">>}
BatchReplies ==
    {ApiError, NotJson, NonObject, Object(Content("ai_subject", "ai_body"), <<>>)}

\* no single pair is being processed
PairIdle ==
    /\ impl = "none" /\ recipient = EmptyDict /\ event = EmptyDict
    /\ day = "" /\ pc = "idle" /\ decision = NoDecision
    /\ invoked = <<>> /\ reply = NoReply /\ result = NoResult

BatchInit ==
    /\ b_impl \in {"brain", "main"}
    /\ b_days \in DayLists
    /\ b_impl = "main" => Len(b_days) = 1
    /\ b_recipients \in SeqsUpTo(BatchRecipientPool, MaxBatch)
    /\ b_events \in SeqsUpTo(BatchEventPool, MaxBatch)
    /\ use_ai \in BOOLEAN
    /\ now = BatchNow
    /\ b_pc = "loop"
    /\ b_d = 1 /\ b_i = 1 /\ b_j = 1
    /\ stats = NoStats /\ day_outputs = <<>> /\ saved = <<>>
    /\ PairIdle /\ ListIdle /\ SenderIdle /\ GateIdle

\* both loops of the current day are exhausted
DayDone ==
    b_i > Len(b_recipients) \/ b_j > Len(b_events) \/ Len(b_events) = 0

BatchFrame == UNCHANGED <<pairVars, listVars, senderVars, gateVars, use_ai, now, b_impl,
                          b_days, b_recipients, b_events>>

\* one iteration of the inner loop whose pair returns a record: brain.py
\* lines 390-405, main.py lines 92-94 (main.py keeps no statistics)
BatchPair ==
    /\ b_pc = "loop" /\ b_d <= Len(b_days) /\ ~DayDone
    /\ \E rp \in BatchReplies :
         LET r == b_recipients[b_i]
             e == b_events[b_j]
             res == PairResult(b_impl, r, e, b_days[b_d], use_ai, rp, now)
             nxt == Advance(b_i, b_j, Len(b_recipients), Len(b_events))
         IN  /\ ~res.raised
             /\ stats' = IF b_impl = "brain" THEN CountPair(stats, res) ELSE stats
             /\ day_outputs' = Append(day_outputs, Entry(r, e, res))
             /\ b_i' = nxt[1] /\ b_j' = nxt[2]
    /\ UNCHANGED <<b_pc, b_d, saved>>
    /\ BatchFrame

\* one iteration whose pair raises: nothing in either loop catches it
BatchPairRaises ==
    /\ b_pc = "loop" /\ b_d <= Len(b_days) /\ ~DayDone
    /\ \E rp \in BatchReplies :
         PairResult(b_impl, b_recipients[b_i], b_events[b_j], b_days[b_d],
                    use_ai, rp, now).raised
    /\ stats' = IF b_impl = "brain" THEN [stats EXCEPT !.total = @ + 1] ELSE stats
    /\ b_pc' = "raised"
    /\ UNCHANGED <<b_d, b_i, b_j, day_outputs, saved>>
    /\ BatchFrame

\* the day file is written: brain.py lines 408-423, main.py
\* save_generated_emails; the next day starts with `day_outputs = []`
BatchSave ==
    /\ b_pc = "loop" /\ b_d <= Len(b_days) /\ DayDone
    /\ saved' = Append(saved, [day |-> b_days[b_d], emails |-> day_outputs])
    /\ b_d' = b_d + 1 /\ b_i' = 1 /\ b_j' = 1
    /\ day_outputs' = IF b_d < Len(b_days) THEN <<>> ELSE day_outputs
    /\ UNCHANGED <<b_pc, stats>>
    /\ BatchFrame

\* os.makedirs, open or json.dump raises: neither generate_batch nor
\* save_generated_emails has a try around them
BatchSaveFails ==
    /\ b_pc = "loop" /\ b_d <= Len(b_days) /\ DayDone
    /\ b_pc' = "raised"
    /\ UNCHANGED <<b_d, b_i, b_j, stats, day_outputs, saved>>
    /\ BatchFrame

\* brain.py line 435 `return stats`; main.py goes on to sending
BatchReturn ==
    /\ b_pc = "loop" /\ b_d > Len(b_days)
    /\ b_pc' = "returned"
    /\ UNCHANGED <<b_d, b_i, b_j, stats, day_outputs, saved>>
    /\ BatchFrame

BatchNext ==
    \/ BatchPair
    \/ BatchPairRaises
    \/ BatchSave
    \/ BatchSaveFails
    \/ BatchReturn

BatchSpec == BatchInit /\ [][BatchNext]_vars

\* ----------------------------------------------------- the sendable list
\* the "verification" member of a record: no such key, JSON null, or an
\* object whose "personalization_fields" is absent, null, or an object whose
\* "email" is an address or absent ("None")
Verification(kind, fields, email) == [kind |-> kind, fields |-> fields, email |-> email]
AbsentVerification == Verification("absent", "absent", "None")
NullVerification == Verification("null", "absent", "None")
PlainVerification == Verification("dict", "absent", "None")
NullFields == Verification("dict", "null", "None")
Personalized(email) == Verification("dict", "dict", email)

\* what the list builders read of a record
Item(status, email, verification) ==
    [status |-> status, email |-> email, verification |-> verification]

\* one entry of the sendable list
Sendable(to, subject, body) ==
    [recipient_email |-> to, subject |-> subject, body |-> body]

Skip == [kind |-> "skip", email |-> Sendable("None", "", "")]
Raise == [kind |-> "raise", email |-> Sendable("None", "", "")]
Keep(email) == [kind |-> "append", email |-> email]

\* email.get("subject") and email.get("body") are both truthy
HasContent(email) == email.kind = "content" /\ email.subject # "" /\ email.body # ""

\* email_sender.py load_generated_emails, the body of the loop
load_generated_emails_item(item) ==
    IF item.status # "generated" THEN Skip
    ELSE IF ~HasContent(item.email) THEN Skip
    ELSE IF item.verification.kind = "null" THEN Raise
    ELSE IF item.verification.fields = "null" THEN Raise
    ELSE Keep(Sendable(IF item.verification.email = "None" THEN "MISSING"
                       ELSE item.verification.email,
                       item.email.subject, item.email.body))

\* main.py prepare_emails_for_sending, the body of the loop: verification.get
\* is evaluated before the content is looked at
prepare_emails_for_sending_item(item) ==
    IF item.status # "generated" THEN Skip
    ELSE IF item.verification.kind = "null" THEN Raise
    ELSE IF ~HasContent(item.email) THEN Skip
    ELSE IF item.verification.fields = "null" THEN Raise
    ELSE Keep(Sendable(item.verification.email, item.email.subject,
                       item.email.body))

BuildItem(im, item) ==
    IF im = "load" THEN load_generated_emails_item(item)
    ELSE prepare_emails_for_sending_item(item)

\* the records the two generators write: blocked records (brain.py sets
\* verification to None, generator.py writes no such key), fallback records
\* (brain.py without, generator.py with personalization_fields) and records
\* made of an AI reply, whose email and verification are the model's
ItemPool ==
    {Item("blocked", NullEmail, NullVerification),
     Item("blocked", NullEmail, AbsentVerification),
     Item("generated", Content("fallback_subject", "fallback_body"), PlainVerification),
     Item("generated", Content("fallback_subject", "fallback_body"), Personalized("asha@example.org"))}
    \cup {Item("generated", em, v) :
            em \in {Content("ai_subject", "ai_body"), Content("", "ai_body"),
                    NullEmail, AbsentEmail},
            v \in {AbsentVerification, NullVerification, NullFields,
                   Personalized("asha@example.org"),
                   Personalized("other@example.org"), Personalized("None")}}

ListInit ==
    /\ l_impl \in {"load", "prepare"}
    /\ l_items \in SeqsUpTo(ItemPool, MaxItems)
    /\ l_k = 1 /\ l_pc = "loop" /\ sendable = <<>>
    /\ use_ai = FALSE /\ now = 0
    /\ PairIdle /\ BatchIdle /\ SenderIdle /\ GateIdle

ListFrame == UNCHANGED <<pairVars, batchVars, senderVars, gateVars, use_ai, now, l_impl,
                         l_items>>

\* a record that is passed over
ListSkip ==
    /\ l_pc = "loop" /\ l_k <= Len(l_items)
    /\ BuildItem(l_impl, l_items[l_k]).kind = "skip"
    /\ l_k' = l_k + 1
    /\ UNCHANGED <<l_pc, sendable>>
    /\ ListFrame

\* a record that is appended
ListAppend ==
    /\ l_pc = "loop" /\ l_k <= Len(l_items)
    /\ BuildItem(l_impl, l_items[l_k]).kind = "append"
    /\ sendable' = Append(sendable, BuildItem(l_impl, l_items[l_k]).email)
    /\ l_k' = l_k + 1
    /\ UNCHANGED l_pc
    /\ ListFrame

\* None.get(...) raises AttributeError out of the function
ListRaises ==
    /\ l_pc = "loop" /\ l_k <= Len(l_items)
    /\ BuildItem(l_impl, l_items[l_k]).kind = "raise"
    /\ l_pc' = "raised"
    /\ UNCHANGED <<l_k, sendable>>
    /\ ListFrame

ListReturn ==
    /\ l_pc = "loop" /\ l_k > Len(l_items)
    /\ l_pc' = "returned"
    /\ UNCHANGED <<l_k, sendable>>
    /\ ListFrame

ListNext ==
    \/ ListSkip
    \/ ListAppend
    \/ ListRaises
    \/ ListReturn

ListSpec == ListInit /\ [][ListNext]_vars

\* -------------------------------------------------------------- delivery
\* `not to_email or not subject or not body`
MissingFields(email) ==
    email.recipient_email = "None" \/ email.subject = "" \/ email.body = ""

\* what send_batch did with one email: "skipped", "sent" or "failed", the
\* number of transmissions made for it, the number of RETRY_DELAY waits
\* between them, and the wait that followed it ("pause", "delay", "none")
Outcome(kind, attempts, waits, after) ==
    [kind |-> kind, attempts |-> attempts, waits |-> waits, after |-> after]

\* send_with_retry / _send_single_with_retry, as <<kind, transmissions, waits>>.
\* Attempt 1..retries is made until one succeeds, with a wait after every
\* failed attempt but the last; with no attempt to make the result is a
\* failure. In dry-run src/core/sender.py returns success before the loop,
\* while email_sender.py enters the loop and send_single_email returns success
\* without transmitting.
RetryOutcomes(im, dry, retries) ==
    IF dry /\ im = "core" THEN {<<"sent", 0, 0>>}
    ELSE IF dry
    THEN (IF retries >= 1 THEN {<<"sent", 0, 0>>} ELSE {<<"failed", 0, 0>>})
    ELSE {<<"sent", a, a - 1>> : a \in 1..retries}
         \cup {<<"failed", retries, IF retries >= 1 THEN retries - 1 ELSE 0>>}

\* the rate limiting at the end of an iteration that did not `continue`
\* (RATE_LIMIT > 0); src/core/sender.py does not wait in dry-run
RateLimit(im, dry, idx, n) ==
    IF im = "core" /\ dry THEN "none"
    ELSE IF idx >= n THEN "none"
    ELSE IF idx % BatchSizeSetting = 0 THEN "pause"
    ELSE "delay"

\* self.stats after one iteration of the loop
CountEmail(st, kind) ==
    [st EXCEPT !.attempted = @ + 1, ![kind] = @ + 1]

\* mutant of AfterEmail: a failed email ends the loop
AfterEmailAbortOnFailure(idx, kind, n) ==
    IF kind = "failed" THEN n + 1 ELSE idx + 1

\* the position of the loop after an email, whatever became of it
AfterEmail(idx, kind, n) == idx + 1

EmailPool ==
    {Sendable("asha@example.org", "subject", "body"),
     Sendable("None", "subject", "body"),
     Sendable("MISSING", "subject", "body")}

\* mutant of ConfigErrors: only EMAIL_USER is required
ConfigErrorsUserOnly(user, password) ==
    IF user THEN <<>> ELSE <<"EMAIL_USER not set">>

\* EmailConfig.validate / Config.validate_email_config (EMAIL_FROM defaults to
\* EMAIL_USER, so it is unset only when EMAIL_USER is)
ConfigErrors(user, password) ==
    (IF user THEN <<>> ELSE <<"EMAIL_USER not set">>)
    \o (IF password THEN <<>> ELSE <<"EMAIL_PASSWORD not set">>)

\* the environment of a delivery run and the lists of emails it is given,
\* before EmailSender is constructed
SenderInit ==
    /\ s_impl \in {"email_sender", "core"}
    /\ dry_run \in BOOLEAN
    /\ max_retries \in 0..MaxRetriesSetting
    /\ cfg_user \in BOOLEAN /\ cfg_password \in BOOLEAN
    /\ s_queue \in {<<a>> : a \in SeqsUpTo(EmailPool, MaxEmails)}
                   \cup {<<a, b>> : a \in SeqsUpTo(EmailPool, 1),
                                    b \in SeqsUpTo(EmailPool, 1)}
    /\ s_call = 1 /\ s_pc = "new" /\ s_idx = 0
    /\ s_stats = NoSendStats /\ s_log = <<>> /\ s_returned = NoSendStats
    /\ s_conns = 0 /\ exit_code = "none"
    /\ use_ai = FALSE /\ now = 0
    /\ PairIdle /\ BatchIdle /\ ListIdle /\ GateIdle

SenderFrame == UNCHANGED <<pairVars, batchVars, listVars, gateVars, use_ai, now,
                           s_impl, dry_run, max_retries, s_queue, cfg_user,
                           cfg_password>>

Emails == s_queue[s_call]

\* EmailSender.__init__ returns: dry-run, or a configuration without errors
Construct ==
    /\ s_pc = "new"
    /\ dry_run \/ ConfigErrors(cfg_user, cfg_password) = <<>>
    /\ s_pc' = "idle"
    /\ UNCHANGED <<s_call, s_idx, s_stats, s_log, s_returned, s_conns, exit_code>>
    /\ SenderFrame

\* EmailSender.__init__ raises ValueError
ConstructRaises ==
    /\ s_pc = "new"
    /\ ~dry_run /\ ConfigErrors(cfg_user, cfg_password) # <<>>
    /\ s_pc' = "ctor_raised"
    /\ UNCHANGED <<s_call, s_idx, s_stats, s_log, s_returned, s_conns, exit_code>>
    /\ SenderFrame

\* send_batch returns self.stats
ReturnStats ==
    /\ s_pc' = "returned"
    /\ s_returned' = s_stats
    /\ UNCHANGED <<s_call, s_idx, s_stats, s_log, s_conns, exit_code>>
    /\ SenderFrame

\* `if not emails: return self.stats`
SendBatchEmpty ==
    /\ s_pc = "idle" /\ Emails = <<>>
    /\ ReturnStats

\* the loop is entered: in dry-run at once, otherwise once
\* _create_smtp_connection has returned
SendBatchStart ==
    /\ s_pc = "idle" /\ Emails # <<>>
    /\ s_pc' = "loop" /\ s_idx' = 1
    /\ s_conns' = IF dry_run THEN s_conns ELSE s_conns + 1
    /\ UNCHANGED <<s_call, s_stats, s_log, s_returned, exit_code>>
    /\ SenderFrame

\* _create_smtp_connection raises: `return self.stats`
SendBatchConnectFails ==
    /\ s_pc = "idle" /\ Emails # <<>> /\ ~dry_run
    /\ ReturnStats

\* one iteration of the loop for an email with a missing field: `continue`
SendSkip ==
    /\ s_pc = "loop" /\ s_idx <= Len(Emails)
    /\ MissingFields(Emails[s_idx])
    /\ s_stats' = CountEmail(s_stats, "skipped")
    /\ s_log' = Append(s_log, Outcome("skipped", 0, 0, "none"))
    /\ s_idx' = AfterEmail(s_idx, "skipped", Len(Emails))
    /\ UNCHANGED <<s_call, s_pc, s_returned, s_conns, exit_code>>
    /\ SenderFrame

\* one iteration of the loop for an email that is handed to the transport
SendEmail ==
    /\ s_pc = "loop" /\ s_idx <= Len(Emails)
    /\ ~MissingFields(Emails[s_idx])
    /\ \E o \in RetryOutcomes(s_impl, dry_run, max_retries) :
         /\ s_stats' = CountEmail(s_stats, o[1])
         /\ s_log' = Append(s_log,
                            Outcome(o[1], o[2], o[3],
                                    RateLimit(s_impl, dry_run, s_idx, Len(Emails))))
         /\ s_idx' = AfterEmail(s_idx, o[1], Len(Emails))
    /\ UNCHANGED <<s_call, s_pc, s_returned, s_conns, exit_code>>
    /\ SenderFrame

\* the loop is exhausted: the connection is closed and self.stats returned
SendBatchReturn ==
    /\ s_pc = "loop" /\ s_idx > Len(Emails)
    /\ ReturnStats

\* the same sender is asked to send the next list
SendBatchAgain ==
    /\ s_pc = "returned" /\ s_call < Len(s_queue)
    /\ s_call' = s_call + 1
    /\ s_pc' = "idle" /\ s_idx' = 0 /\ s_log' = <<>>
    /\ UNCHANGED <<s_stats, s_returned, s_conns, exit_code>>
    /\ SenderFrame

\* main of email_sender.py ends with the given code
Exit(code) ==
    /\ s_pc' = "exited"
    /\ exit_code' = code
    /\ UNCHANGED <<s_call, s_idx, s_stats, s_log, s_returned, s_conns>>
    /\ SenderFrame

\* email_sender.py main: load_generated_emails found nothing to send
MainNoEmails ==
    /\ s_impl = "email_sender" /\ s_call = 1
    /\ s_pc = "new" /\ Emails = <<>>
    /\ Exit("1")

\* email_sender.py main: the constructor's ValueError reaches `except Exception`
MainSetupError ==
    /\ s_impl = "email_sender" /\ s_call = 1
    /\ s_pc = "ctor_raised" /\ Emails # <<>>
    /\ Exit("1")

\* email_sender.py main after send_batch: save_send_log, which may raise into
\* `except Exception`, then `return 0 if stats['failed'] == 0 else 1`
MainExit ==
    /\ s_impl = "email_sender" /\ s_call = 1
    /\ s_pc = "returned" /\ Emails # <<>>
    /\ \E log_saved \in BOOLEAN :
         Exit(IF log_saved /\ s_returned.failed = 0 THEN "0" ELSE "1")

SenderNext ==
    \/ Construct
    \/ ConstructRaises
    \/ SendBatchEmpty
    \/ SendBatchStart
    \/ SendBatchConnectFails
    \/ SendSkip
    \/ SendEmail
    \/ SendBatchReturn
    \/ SendBatchAgain
    \/ MainNoEmails
    \/ MainSetupError
    \/ MainExit

SenderSpec == SenderInit /\ [][SenderNext]_vars

\* ------------------------------------------- the gate, called twice
\* One pair is handed to should_send_email, time may pass, and the same pair
\* is handed to it again. The function reads its arguments and the clock and
\* assigns to neither dict.
GateInit ==
    /\ impl = "gate"
    /\ \E p \in Pairs : recipient = p[1] /\ event = p[2]
    /\ now \in 0..MaxNow
    /\ pc = "start"
    /\ decision = NoDecision
    /\ day = "" /\ invoked = <<>> /\ reply = NoReply /\ result = NoResult
    /\ use_ai = FALSE
    /\ GateIdle
    /\ BatchIdle /\ ListIdle /\ SenderIdle

GateFrame == UNCHANGED <<impl, recipient, event, day, invoked, reply, result,
                         use_ai, batchVars, listVars, senderVars>>

\* the first call of should_send_email(recipient, event)
GateFirst ==
    /\ impl = "gate" /\ pc = "start"
    /\ decision' = should_send_email(recipient, event, now)
    /\ now1' = now
    /\ pc' = "once"
    /\ UNCHANGED <<now, decision2>>
    /\ GateFrame

\* datetime.now(pytz.utc) moves on between the calls
GateTick ==
    /\ impl = "gate" /\ pc = "once"
    /\ now < MaxNow
    /\ now' = now + 1
    /\ UNCHANGED <<pc, decision, now1, decision2>>
    /\ GateFrame

\* the second call of should_send_email(recipient, event)
GateSecond ==
    /\ impl = "gate" /\ pc = "once"
    /\ decision2' = should_send_email(recipient, event, now)
    /\ pc' = "twice"
    /\ UNCHANGED <<now, decision, now1>>
    /\ GateFrame

GateNext ==
    \/ GateFirst
    \/ GateTick
    \/ GateSecond

GateSpec == GateInit /\ [][GateNext]_vars

\* ------------------------------------------------------------- properties
OptOutTrue == "opt_out" \in DOMAIN recipient /\ recipient["opt_out"] = TRUE

\* the pair processor returned a record (it did not raise)
Returned == pc = "done" /\ ~result.raised

\* validate_recipient and validate_event both return an empty list
ValidPair ==
    /\ ~validate_event(event).raised
    /\ validate_recipient(recipient) = <<>>
    /\ validate_event(event).errors = <<>>

\* the topics and tags of the pair
Topics == Get(recipient, "topics", List(<<>>))
Tags == Get(event, "tags", List(<<>>))

\* C1: for a recipient whose opt_out is true, whatever the event, the day,
\* the AI mode and the provider's behaviour, every record that
\* generate_email_for_pair (brain.py) or EmailGenerator.generate_email returns
\* has status "blocked" and a null email, and no "generated" record exists.
C1_OptOutNeverGenerated ==
    OptOutTrue =>
        /\ result.status # "generated"
        /\ Returned => (result.status = "blocked" /\ result.email = NullEmail)

\* an opted-out recipient that every other rule would let through was blocked
C1_Witness ==
    /\ impl = "brain" /\ use_ai /\ OptOutTrue /\ Returned
    /\ should_send_email([recipient EXCEPT !["opt_out"] = FALSE], event, now).should_send
    /\ result.status = "blocked" /\ result.email = NullEmail

\* C2 as stated: with opt_out true generate_email_for_pair yields blocked with
\* reason opted_out regardless of every other field of recipient and event.
C2_OptOutAlwaysOptedOut ==
    (impl = "brain" /\ OptOutTrue /\ Returned) =>
        (result.status = "blocked" /\ result.reason = "opted_out")

\* C2 amended: with opt_out true and a pair for which validate_recipient and
\* validate_event report no error, should_send_email decides opted_out and every
\* record generate_email_for_pair returns is blocked with reason opted_out,
\* regardless of topic overlap and deadline.
C2_OptOutWhenValid ==
    (impl = "brain" /\ OptOutTrue /\ ValidPair /\ pc # "start") =>
        /\ ~decision.raised /\ ~decision.should_send /\ decision.reason = "opted_out"
        /\ Returned => (result.status = "blocked" /\ result.reason = "opted_out")

\* an opted-out recipient whose event's deadline has also passed
C2_Witness ==
    /\ impl = "brain" /\ OptOutTrue /\ ValidPair /\ Returned
    /\ DeadlineOf(event).kind = "date"
    /\ is_deadline_passed(DeadlineOf(event), now).passed
    /\ result.reason = "opted_out"

\* C3: in should_send_email, whenever validate_recipient or validate_event
\* reports an error the decision is (False, "validation_failed") with the
\* recipient's errors followed by the event's as warnings, whatever the
\* opt-out flag, the deadline and the topics are.
C3_ValidationFirst ==
    LET r_errors == validate_recipient(recipient)
        e_res == validate_event(event)
    IN  (impl = "brain" /\ pc # "start" /\ ~e_res.raised
         /\ (r_errors # <<>> \/ e_res.errors # <<>>)) =>
            decision = Decision(FALSE, "validation_failed", r_errors \o e_res.errors)

\* both lists of errors are non-empty, the recipient has opted out and its
\* topics would make topic_overlap raise
C3_Witness ==
    /\ impl = "brain" /\ pc # "start" /\ OptOutTrue
    /\ validate_recipient(recipient) # <<>>
    /\ ~validate_event(event).raised /\ validate_event(event).errors # <<>>
    /\ ~AllStr(Topics)
    /\ decision.reason = "validation_failed"
    /\ Len(decision.warnings) >= 2

\* the deadline of the pair, and whether its instant lies before now: a naive
\* reading is a reading of the Asia/Kolkata clock
Deadline == DeadlineOf(event)
DeadlineBeforeNow ==
    /\ Deadline.kind = "date"
    /\ (IF Deadline.tz = "naive" THEN Deadline.clock - IST_OFFSET
        ELSE Deadline.clock) < now
DeadlinePresent ==
    /\ "metadata" \in DOMAIN event /\ event["metadata"].isMap
    /\ "application_deadline" \in DOMAIN event["metadata"].d

\* the case-insensitive, trimmed intersection of topics and tags
Intersection == KeySet(Topics) \cap KeySet(Tags)

\* C4: for a valid recipient that has not opted out and a valid event whose
\* deadline parses, should_send_email returns deadline_passed exactly when the
\* deadline instant (a naive reading taken as Asia/Kolkata) is strictly before
\* now; a deadline equal to or after now never blocks.
C4_DeadlinePassedIff ==
    (impl = "brain" /\ pc # "start" /\ ValidPair /\ ~OptOutTrue
     /\ Deadline.kind = "date") =>
        ((~decision.raised /\ decision.reason = "deadline_passed")
            <=> DeadlineBeforeNow)

\* a naive deadline that has passed blocks a pair whose topics all overlap
C4_Witness ==
    /\ impl = "brain" /\ pc # "start" /\ ValidPair /\ ~OptOutTrue
    /\ Deadline.kind = "date" /\ Deadline.tz = "naive"
    /\ Deadline.clock - IST_OFFSET = now - 1
    /\ AllStr(Topics) /\ AllStr(Tags) /\ KeySet(Topics) \subseteq KeySet(Tags)
    /\ Topics.items # <<>>
    /\ decision.reason = "deadline_passed"

\* C5 as stated: an event that is complete but for application_deadline has no
\* deadline constraint, so the gate approves it for a valid recipient that has
\* not opted out and shares a topic with it.
C5_MissingDeadlineApproved ==
    (impl = "brain" /\ pc # "start"
     /\ validate_recipient(recipient) = <<>> /\ ~OptOutTrue
     /\ Range(REQUIRED_EVENT_FIELDS) \subseteq DOMAIN event
     /\ event["metadata"].isMap
     /\ DOMAIN event["metadata"].d = {"amount_range"}
     /\ AllStr(Topics) /\ AllStr(Tags) /\ Intersection # {}) =>
        (~decision.raised /\ decision.should_send)

ParseWarning == Warn("Invalid deadline format", "")

\* C6 as stated: a deadline that is present but does not parse never yields
\* deadline_passed, and an approved pair carries the parse warning.
C6_UnparseableWarns ==
    (impl = "brain" /\ pc # "start" /\ DeadlinePresent
     /\ Deadline.kind \in {"bad", "empty"}) =>
        /\ decision.reason # "deadline_passed"
        /\ decision.should_send => ParseWarning \in Range(decision.warnings)

\* C6 amended: a deadline that is present, not empty and does not parse never
\* yields deadline_passed; for a valid pair that has not opted out the decision
\* is that of the topic match, and an approved pair carries the parse warning.
\* (An empty deadline is skipped like a missing one, without a warning.)
C6_NonEmptyUnparseableWarns ==
    (impl = "brain" /\ pc # "start" /\ DeadlinePresent /\ Deadline.kind = "bad") =>
        /\ decision.reason # "deadline_passed"
        /\ decision.should_send => ParseWarning \in Range(decision.warnings)
        /\ (ValidPair /\ ~OptOutTrue /\ ~decision.raised) =>
              decision.reason = (IF Intersection = {} THEN "no_topic_match"
                                 ELSE "approved")

\* a pair approved although its deadline does not parse
C6_Witness ==
    /\ impl = "brain" /\ pc # "start" /\ DeadlinePresent /\ Deadline.kind = "bad"
    /\ decision.should_send
    /\ decision.warnings = <<ParseWarning>>

\* C7: for a valid pair (topics and tags lists of strings) that has not opted
\* out and whose deadline has not passed, should_send_email returns
\* no_topic_match exactly when the case-insensitive, trimmed intersection of
\* topics and tags is empty, and approves otherwise.
C7_NoTopicMatchIff ==
    (impl = "brain" /\ pc # "start" /\ ValidPair /\ ~OptOutTrue
     /\ AllStr(Topics) /\ AllStr(Tags) /\ ~DeadlineBeforeNow) =>
        /\ ~decision.raised
        /\ decision.reason = (IF Intersection = {} THEN "no_topic_match"
                              ELSE "approved")
        /\ decision.should_send <=> Intersection # {}

\* a pair approved on a single topic that matches only once trimmed and
\* lower-cased
C7_Witness ==
    /\ impl = "brain" /\ pc # "start" /\ ValidPair /\ ~OptOutTrue
    /\ Topics = List(<<Str(S_h_padded)>>)
    /\ Str(S_H) \in Range(Tags.items)
    /\ decision.reason = "approved"

\* the elements of a set of str, in sorted order
RECURSIVE SortedSet(_)
SortedSet(S) ==
    IF S = {} THEN <<>>
    ELSE LET m == CHOOSE x \in S : \A y \in S \ {x} : StrLess(x, y)
         IN  <<m>> \o SortedSet(S \ {m})

\* C8 as stated: topic_overlap yields, sorted, exactly the distinct overlapping
\* terms, each trimmed and in the recipient's casing.
C8_OverlapTrimmedSorted ==
    (impl = "brain" /\ Returned /\ AllStr(Topics) /\ AllStr(Tags)) =>
        result.topic_overlap =
            SortedSet({Strip(Topics.items[i].s) :
                         i \in {j \in DOMAIN Topics.items :
                                  Lower(Strip(Topics.items[j].s)) \in KeySet(Tags)}})

\* C9: the content provider (the AI call or the fallback construction) is
\* invoked only in a step that starts from an approved gate decision for the
\* pair; it is never invoked for a blocked pair.
C9_ProviderOnlyAfterApproval ==
    [][invoked' # invoked =>
          (pc = "gated" /\ ~decision.raised /\ decision.should_send
           /\ decision.reason = "approved")]_vars

\* the text-generation service was called for an approved pair
C9_Witness ==
    /\ pc = "done" /\ invoked = <<"api">>
    /\ decision.reason = "approved"
    /\ result.status = "generated"

\* C10 as stated: every record generate_email_for_pair returns has a non-null
\* email exactly when its status is "generated".
C10_EmailIffGenerated ==
    (impl = "brain" /\ Returned) =>
        (result.email.kind = "content" <=> result.status = "generated")

\* the gate approved the pair
Approved == ~decision.raised /\ decision.should_send

FallbackContent == Content("fallback_subject", "fallback_body")
HasFallbackMarker ==
    \E i \in DOMAIN result.warnings : result.warnings[i].msg = "Used fallback due to"

\* C11: for an approved pair with AI enabled, whenever the text-generation
\* call raises or returns text that is not JSON, generate_email_for_pair does
\* not raise and returns status "generated" with the fallback subject and body
\* and a "Used fallback due to: <error>" warning after the gate's warnings.
C11_FallbackOnProviderFailure ==
    (impl = "brain" /\ pc = "done" /\ use_ai /\ Approved
     /\ reply.kind \in {"api_error", "not_json"}) =>
        /\ ~result.raised
        /\ result.status = "generated"
        /\ result.email = FallbackContent
        /\ HasFallbackMarker
        /\ result.warnings =
              decision.warnings
              \o <<Warn("Used fallback due to",
                        IF reply.kind = "api_error" THEN "API error"
                        ELSE "JSON parse error")>>

\* the service answered an approved pair with text that is not JSON
C11_Witness ==
    /\ impl = "brain" /\ pc = "done" /\ use_ai /\ Approved
    /\ reply.kind = "not_json"
    /\ invoked = <<"api", "fallback">>
    /\ result.status = "generated" /\ result.email = FallbackContent

\* a reply that is an object holding an email with subject and body
WellFormed(rp) == rp.kind = "object" /\ rp.email.kind = "content"

\* C12 as stated: for every malformed reply of the text-generation service,
\* including JSON that is not an object with an email, generate_email_for_pair
\* returns a fallback result with a warning instead of raising.
C12_NoProviderFailurePropagates ==
    (impl = "brain" /\ pc = "done" /\ use_ai /\ Approved
     /\ reply.kind # "none" /\ ~WellFormed(reply)) =>
        /\ ~result.raised
        /\ result.status = "generated"
        /\ result.email = FallbackContent
        /\ HasFallbackMarker

\* a field of the pair that is present but ill-typed
Malformed ==
    \/ ~AllStr(Topics)
    \/ ~AllStr(Tags)
    \/ ("metadata" \in DOMAIN event /\ ~event["metadata"].isMap)

\* C13 as stated: should_send_email and generate_email_for_pair never raise on
\* missing or malformed data, and any malformed field (topics or tags holding
\* non-strings, metadata that is no mapping) is blocked as validation_failed.
C13_MalformedIsValidationFailed ==
    (impl = "brain" /\ pc # "start") =>
        /\ ~decision.raised
        /\ Malformed => decision.reason = "validation_failed"
        /\ (pc = "done" /\ reply.kind = "none") => ~result.raised

\* the sum of the counts of a dict
RECURSIVE SumOf(_)
SumOf(d) ==
    IF DOMAIN d = {} THEN 0
    ELSE LET k == CHOOSE x \in DOMAIN d : TRUE
         IN  d[k] + SumOf([x \in DOMAIN d \ {k} |-> d[x]])

PairsPerDay == Len(b_recipients) * Len(b_events)

\* C14: at every pair boundary of generate_batch and at its return,
\* generated + blocked = total and the by_reason counts sum to blocked; total
\* counts every pair processed so far once, and at return it is
\* |days| x |recipients| x |events|.
C14_StatsPartition ==
    (b_impl = "brain" /\ b_pc \in {"loop", "returned"}) =>
        /\ stats.generated + stats.blocked = stats.total
        /\ SumOf(stats.by_reason) = stats.blocked
        /\ stats.total = Len(saved) * PairsPerDay
                         + (IF b_d <= Len(b_days) THEN Len(day_outputs) ELSE 0)
        /\ b_pc = "returned" => stats.total = Len(b_days) * PairsPerDay

\* a batch of two days returned with generated pairs and two block reasons
C14_Witness ==
    /\ b_impl = "brain" /\ b_pc = "returned"
    /\ Len(b_days) = 2 /\ stats.total = 2 * MaxBatch * MaxBatch
    /\ stats.generated > 0
    /\ {"opted_out", "deadline_passed"} \subseteq DOMAIN stats.by_reason

\* the gate's verdict on the pair at positions (i, j)
GateBlocks(i, j) ==
    LET dec == IF b_impl = "brain"
               THEN should_send_email(b_recipients[i], b_events[j], now)
               ELSE validate_request(b_recipients[i], b_events[j], now)
    IN  ~dec.should_send

\* the records of one day are those of the pairs in recipient-major order
InPairOrder(emails) ==
    \A k \in DOMAIN emails :
        LET i == ((k - 1) \div Len(b_events)) + 1
            j == ((k - 1) % Len(b_events)) + 1
        IN  /\ i <= Len(b_recipients)
            /\ emails[k].recipient_id = b_recipients[i]["recipient_id"]
            /\ emails[k].event_id = b_events[j]["event_id"]
            /\ emails[k].status = (IF GateBlocks(i, j) THEN "blocked" ELSE "generated")

\* C15: for each day generate_batch, and the loop of main.py, append exactly
\* one record per (recipient, event) pair, recipient-major and event-minor: the
\* record at position i*|events|+j is that of the i-th recipient and the j-th
\* event; days are processed, and their files written, in the order given.
C15_RecipientMajorOrder ==
    b_pc \in {"loop", "returned"} =>
        /\ InPairOrder(day_outputs)
        /\ Len(saved) <= Len(b_days)
        /\ \A n \in DOMAIN saved :
              /\ saved[n].day = b_days[n]
              /\ Len(saved[n].emails) = PairsPerDay
              /\ InPairOrder(saved[n].emails)

\* two days written for two distinct recipients and two distinct events
C15_Witness ==
    /\ b_impl = "brain" /\ b_pc = "returned" /\ Len(saved) = 2
    /\ Len(b_recipients) = 2 /\ b_recipients[1] # b_recipients[2]
    /\ Len(b_events) = 2 /\ b_events[1] # b_events[2]
    /\ saved[2].emails[2].recipient_id = b_recipients[1]["recipient_id"]
    /\ saved[2].emails[2].event_id = b_events[2]["event_id"]
    /\ saved[2].emails[3].recipient_id = b_recipients[2]["recipient_id"]

\* the loop of main.py wrote its day in the same order
C15_WitnessMain ==
    /\ b_impl = "main" /\ b_pc = "returned" /\ Len(saved) = 1
    /\ Len(saved[1].emails) = MaxBatch * MaxBatch
    /\ b_events[1] # b_events[2]

\* C16 as stated: a failure to persist one day's collection does not end
\* generate_batch; it goes on with the remaining days and returns statistics.
C16_SaveFailureNonFatal ==
    [][(b_impl = "brain" /\ b_pc = "loop" /\ b_d <= Len(b_days) /\ DayDone)
          => b_pc' = "loop"]_vars

\* every recipient and event of the batch is complete and well-typed
WellTypedBatch ==
    /\ \A i \in DOMAIN b_recipients :
          /\ validate_recipient(b_recipients[i]) = <<>>
          /\ AllStr(b_recipients[i]["topics"])
    /\ \A j \in DOMAIN b_events :
          /\ ~validate_event(b_events[j]).raised
          /\ validate_event(b_events[j]).errors = <<>>
          /\ AllStr(b_events[j]["tags"])

\* the number of pairs the gate approves, over all days
RECURSIVE CountApproved(_, _)
CountApproved(i, j) ==
    IF i > Len(b_recipients) \/ Len(b_events) = 0 THEN 0
    ELSE LET nxt == IF j < Len(b_events) THEN <<i, j + 1>> ELSE <<i + 1, 1>>
         IN  (IF GateBlocks(i, j) THEN 0 ELSE 1) + CountApproved(nxt[1], nxt[2])

\* C17 as stated: whatever the text-generation service does, generate_batch
\* on well-formed data does not end in an exception, and at return the number
\* of generated records is the number of gate-approved pairs.
C17_ProviderNeverChangesCounts ==
    (b_impl = "brain" /\ WellTypedBatch) =>
        /\ (b_pc = "raised" => (b_d <= Len(b_days) /\ DayDone))
        /\ (b_pc = "returned" =>
              stats.generated = Len(b_days) * CountApproved(1, 1))

\* the records that qualify for sending
Qualifies(item) == item.status = "generated" /\ HasContent(item.email)
Contents(l) == [k \in DOMAIN l |-> <<l[k].subject, l[k].body>>]
ItemContents(l) == [k \in DOMAIN l |-> <<l[k].email.subject, l[k].email.body>>]

\* C18 as stated: the list load_generated_emails and prepare_emails_for_sending
\* build holds, in the original order, exactly the records with status
\* generated and a non-empty subject and body, and building it never raises for
\* a record the generators produce.
C18_SendableExactlyGenerated ==
    /\ l_pc # "raised"
    /\ l_pc = "returned" =>
          Contents(sendable) = ItemContents(SelectSeq(l_items, Qualifies))

\* C19 as stated: each send_batch call returns counts that partition its own
\* input: attempted is the number of emails passed to that call, and
\* attempted = sent + failed + skipped.
C19_CountsPartitionInput ==
    s_pc = "returned" =>
        /\ s_returned.attempted = Len(Emails)
        /\ s_returned.attempted =
              s_returned.sent + s_returned.failed + s_returned.skipped

\* the emails of the running call that send_batch has dealt with so far
Processed == IF s_pc = "idle" THEN 0 ELSE Len(s_log)

\* C20: once the loop of send_batch is entered (connection established, or
\* dry-run), an email whose transmissions all fail is recorded as failed and
\* the loop goes on: each email of the input gets its own outcome in order,
\* failed exactly after max_retries failed transmissions, and at return every
\* email of the input has been processed.
C20_FailureDoesNotAbort ==
    /\ s_pc = "loop" => (Len(s_log) = s_idx - 1 /\ s_idx <= Len(Emails) + 1)
    /\ (s_pc = "returned" /\ s_log # <<>>) => Len(s_log) = Len(Emails)
    /\ \A k \in DOMAIN s_log :
          /\ s_log[k].kind = "skipped" <=> MissingFields(Emails[k])
          /\ s_log[k].kind = "failed" =>
                s_log[k].attempts = (IF dry_run THEN 0 ELSE max_retries)
    /\ s_pc \in {"loop", "returned", "exited"} =>
          Cardinality({k \in DOMAIN s_log : s_log[k].kind = "failed"})
            <= s_stats.failed

\* the first email failed after its retries and the second was still sent
C20_Witness ==
    /\ s_pc = "returned" /\ ~dry_run /\ max_retries > 0
    /\ Len(s_log) = 2
    /\ s_log[1].kind = "failed" /\ s_log[1].attempts = max_retries
    /\ s_log[2].kind = "sent"
    /\ s_returned.failed = 1 /\ s_returned.sent = 1

\* ---------------------------------------------------------------------------
\* C21 - in a delivery that is not a dry run and has EMAIL_USER or
\* EMAIL_PASSWORD unset, the constructor of EmailSender raises: the sender
\* never comes to exist, no SMTP connection is opened and no email is
\* attempted, counted or logged.
C21_SetupErrorBeforeAnySend ==
    (~dry_run /\ ~(cfg_user /\ cfg_password)) =>
        /\ s_pc \in {"new", "ctor_raised", "exited"}
        /\ s_conns = 0
        /\ s_log = <<>>
        /\ s_stats = NoSendStats

C21_Witness ==
    /\ s_pc = "ctor_raised"
    /\ ~dry_run /\ cfg_user /\ ~cfg_password
    /\ Emails # <<>> /\ ~MissingFields(Emails[1])

\* ---------------------------------------------------------------------------
\* C22 - main of email_sender.py returns 0 only when every loaded email was
\* delivered: in a run that is not a dry run and ended with code 0, each email
\* of the list has an outcome and that outcome is "sent".
C22_ExitZeroOnlyOnFullDelivery ==
    (exit_code = "0" /\ ~dry_run) =>
        /\ Len(s_log) = Len(Emails)
        /\ \A k \in 1..Len(s_log) : s_log[k].kind = "sent"

\* ---------------------------------------------------------------------------
\* C23 - the tone of every generated record brain.py returns is the step
\* function of the recipient's engagement_score: at least 0.7 enthusiastic,
\* at least 0.5 and below 0.7 professional, below 0.5 gentle.
C23_ToneIsStepFunction ==
    (impl = "brain" /\ Returned /\ result.status = "generated") =>
        /\ "engagement_score" \in DOMAIN recipient
        /\ LET score == recipient["engagement_score"]
           IN  /\ score >= ENGAGEMENT_HIGH => result.tone = "enthusiastic"
               /\ (ENGAGEMENT_LOW <= score /\ score < ENGAGEMENT_HIGH) =>
                      result.tone = "professional"
               /\ score < ENGAGEMENT_LOW => result.tone = "gentle"

C23_Witness ==
    /\ impl = "brain" /\ Returned /\ result.status = "generated"
    /\ recipient["engagement_score"] = ENGAGEMENT_LOW
    /\ result.tone = "professional"

\* ---------------------------------------------------------------------------
\* the deadline of the event parses and lies between the two calls: not yet
\* passed at the first, passed at the second (naive readings are IST)
DeadlineCrossed ==
    LET deadline == DeadlineOf(event)
        instant == IF deadline.tz = "naive" THEN deadline.clock - IST_OFFSET
                   ELSE deadline.clock
    IN  deadline.kind = "date" /\ now1 <= instant /\ instant < now

C24_CrossingWitness ==
    /\ impl = "gate" /\ pc = "twice" /\ DeadlineCrossed
    /\ decision.reason = "approved" /\ decision2.reason = "deadline_passed"

\* ---------------------------------------------------------------------------
\* C25 - for every day identifier, generate_email_content resolves the day's
\* configuration and submits the request to the text-generation service: a
\* generated record that brain.py returns with AI enabled comes from a run in
\* which the service was invoked.
C25_EveryDayReachesService ==
    (impl = "brain" /\ Returned /\ use_ai /\ result.status = "generated") =>
        \E i \in DOMAIN invoked : invoked[i] = "api"

\* ---------------------------------------------------------------------------
\* the warnings of the returned record after the gate's
ProviderPart ==
    SubSeq(result.warnings, Len(decision.warnings) + 1, Len(result.warnings))

\* C26 - in every generated record either pipeline returns, warnings is the
\* gate's warnings followed by the provider's: the warnings of the service's
\* reply when that reply is the record, and the single fallback warning
\* otherwise.
C26_GateWarningsThenProvider ==
    (Returned /\ result.status = "generated") =>
        /\ Len(result.warnings) >= Len(decision.warnings)
        /\ SubSeq(result.warnings, 1, Len(decision.warnings)) = decision.warnings
        /\ IF reply.kind = "object"
           THEN ProviderPart = reply.warnings
           ELSE /\ Len(ProviderPart) = 1
                /\ ProviderPart[1].msg \in {"Used fallback due to", "Used fallback"}

C26_Witness ==
    /\ impl = "brain" /\ Returned /\ result.status = "generated"
    /\ decision.warnings # <<>>
    /\ reply.kind = "object" /\ reply.warnings # <<>>
    /\ result.warnings = decision.warnings \o reply.warnings

\* ---------------------------------------------------------------------------
\* C27 - for every email handed to the transport in a run that is not a dry
\* run: at most MAX_RETRIES transmissions are made, a RETRY_DELAY wait lies
\* between consecutive transmissions and none follows the last, and a failure
\* is reported only after at least one transmission, when all MAX_RETRIES
\* transmissions have failed.
C27_RetryDiscipline ==
    ~dry_run =>
        \A k \in DOMAIN s_log :
            s_log[k].kind # "skipped" =>
                /\ s_log[k].attempts <= max_retries
                /\ s_log[k].waits = s_log[k].attempts - 1
                /\ s_log[k].kind = "failed" =>
                       (s_log[k].attempts >= 1 /\ s_log[k].attempts = max_retries)

\* ---------------------------------------------------------------------------
\* the emails at positions i..j of the running call that were transmitted
Transmitted(i, j) == {k \in i..j : s_log[k].attempts >= 1}

\* C28 - in a send_batch that is not a dry run no wait follows the last email,
\* and no more than BATCH_SIZE emails are transmitted without a batch pause
\* between them, whatever mix of sent, failed and skipped entries the list
\* holds.
C28_PauseEveryBatch ==
    ~dry_run =>
        /\ \A k \in DOMAIN s_log :
               k = Len(Emails) => s_log[k].after = "none"
        /\ \A i, j \in DOMAIN s_log :
               (i <= j /\ Cardinality(Transmitted(i, j)) > BatchSizeSetting) =>
                   \E k \in i..(j - 1) : s_log[k].after = "pause"

\* ---------------------------------------------------------------------------
\* C29 - the two gates agree: whenever _validate_request of
\* src/core/generator.py returned for a pair and should_send_email of brain.py
\* returns for the same pair at the same instant, should_send and reason are
\* the same.
C29_GatesAgree ==
    (impl = "generator" /\ pc # "start" /\ ~decision.raised
     /\ ~should_send_email(recipient, event, now).raised) =>
        /\ decision.should_send = should_send_email(recipient, event, now).should_send
        /\ decision.reason = should_send_email(recipient, event, now).reason

\* ---------------------------------------------------------------------------
\* C30 - delivery only transmits to the recipient's own address: every entry
\* of the sendable list built from records generated for the recipient
\* asha@example.org either carries that address or fails send_batch's
\* missing-field test and is skipped.
C30_OnlyOwnAddress ==
    \A k \in DOMAIN sendable :
        ~MissingFields(sendable[k]) =>
            sendable[k].recipient_email = "asha@example.org"

====
